---- MODULE Spec2Model ----
(***************************************************************************)
(* A model of the V4L2 capture session of pkg/driver/camera                *)
(* (camera_linux.go): Open, VideoRecord, the reader closure it returns     *)
(* (called next() below) and Close, together with the decoder proxy of     *)
(* pkg/frame.  The webcam library is an external collaborator: every call  *)
(* into it answers nondeterministically (success, timeout, error, any      *)
(* frame).  Open, VideoRecord and Close are issued by one controlling      *)
(* goroutine, one after the other; next() is called by the goroutines of   *)
(* Threads, concurrently with the controller.                              *)
(***************************************************************************)
EXTENDS Integers, Sequences, FiniteSets, TLC

VARIABLES
  cam,      \* c.cam: the handle the session points at, 0 = nil
  cancel,   \* c.cancel: the reader whose context it cancels, 0 = nil
  mutex,    \* c.mutex: "free", or the goroutine holding it
  dev,      \* the device handles handed out by webcam.Open
  readers,  \* the reader closures VideoRecord returned, in creation order
  th,       \* the goroutines calling next(): position and closure locals
  cl,       \* the controller's Close() call: position
  ev,       \* the call made by the last step and the device requests it sent
  past,     \* what the last completed next() call met (history)
  props,    \* the device's capability report and what Properties() answered
  av        \* one call of the reader of the AVFoundation camera

vars == <<cam, cancel, mutex, dev, readers, th, cl, ev, past, props, av>>

----------------------------------------------------------------------------
\* Bounds of the model.
MaxHandles == 2     \* successful Open() calls
MaxCloses == 2      \* Close() calls
MaxFrameLen == 2    \* bytes in one frame
MaxQueries == 2     \* Properties() calls

\* Program constant.
maxEmptyFrameCount == 5

Threads == {"t1", "t2"}
Closer == "closer"
Free == "free"
Bytes == {1, 2}

Handles == 1..MaxHandles

\* Every byte sequence of length at most n.
RECURSIVE SeqsUpTo(_)
SeqsUpTo(n) ==
  IF n = 0 THEN {<<>>}
  ELSE LET shorter == SeqsUpTo(n - 1)
       IN shorter \cup {Append(s, x) : s \in {q \in shorter : Len(q) = n - 1}, x \in Bytes}

Frames == SeqsUpTo(MaxFrameLen)
LifeFrames == {<<>>, <<1>>}

----------------------------------------------------------------------------
\* Error values.  A plain error is made by errors.New or comes from the
\* device; a decoderError wraps the cause the format decoder returned.
Nil == [t |-> "nil", v |-> "nil"]
Err(v) == [t |-> "plain", v |-> v]
EOF == Err("io.EOF")
errReadTimeout == Err("read timeout")
errEmptyFrame == Err("empty frame")
waitErr == Err("wait failed")
readErr == Err("read failed")
decodeCause == Err("bad data")
DecoderError == Err("decoder error")

decoderError(cause) == [t |-> "decoderError", v |-> cause.v]

\* (*decoderError).Is
decoderErrorIs(target) == target = DecoderError

\* (*decoderError).Unwrap
Unwrap(err) == IF err.t = "decoderError" THEN Err(err.v) ELSE Nil

\* errors.Is(err, target): equality, the Is method, then the unwrapped cause.
ErrorsIs(err, target) ==
  /\ err # Nil
  /\ \/ err = target
     \/ err.t = "decoderError" /\ decoderErrorIs(target)
     \/ Unwrap(err) # Nil /\ Unwrap(err) = target

NoImage == <<>>

\* decodeMJPEG and its siblings: the format decoder f.  ok is whether the
\* data decodes; the image is represented by the bytes it was decoded from,
\* the release callback by "func".
FormatDecode(frame, ok) ==
  IF ok THEN [img |-> frame, release |-> "func", err |-> Nil]
  ELSE [img |-> NoImage, release |-> "func", err |-> decodeCause]

\* Faulty variant, used to show the property depends on this step: the error of the format decoder is returned as it is.
DecodeUnwrapped(frame, ok) == FormatDecode(frame, ok)

\* decoderFunc.Decode
Decode(frame, ok) ==
  LET r == FormatDecode(frame, ok)
  IN [img |-> r.img, release |-> r.release,
      err |-> IF r.err # Nil THEN decoderError(r.err) ELSE r.err]

----------------------------------------------------------------------------
\* Faulty variant, used to show the property depends on this step: two native formats share one canonical format.
formatsShared ==
  ("V4L2_PIX_FMT_YUV420" :> "FormatI420") @@
  ("V4L2_PIX_FMT_NV21" :> "FormatNV12") @@
  ("V4L2_PIX_FMT_NV12" :> "FormatNV12") @@
  ("V4L2_PIX_FMT_YUYV" :> "FormatYUYV") @@
  ("V4L2_PIX_FMT_UYVY" :> "FormatUYVY") @@
  ("V4L2_PIX_FMT_MJPEG" :> "FormatMJPEG") @@
  ("V4L2_PIX_FMT_Z16" :> "FormatZ16")

\* The Format Table of newCamera.
formats ==
  ("V4L2_PIX_FMT_YUV420" :> "FormatI420") @@
  ("V4L2_PIX_FMT_NV21" :> "FormatNV21") @@
  ("V4L2_PIX_FMT_NV12" :> "FormatNV12") @@
  ("V4L2_PIX_FMT_YUYV" :> "FormatYUYV") @@
  ("V4L2_PIX_FMT_UYVY" :> "FormatUYVY") @@
  ("V4L2_PIX_FMT_MJPEG" :> "FormatMJPEG") @@
  ("V4L2_PIX_FMT_Z16" :> "FormatZ16")

\* reversedFormats[v] = k
Put(rev, v, k) == [x \in (DOMAIN rev) \cup {v} |-> IF x = v THEN k ELSE rev[x]]

\* for k, v := range formats { reversedFormats[v] = k }: the maps the loop
\* can end with, the keys still to visit being `left`; `range` visits them in
\* an order the runtime chooses.
RECURSIVE RangeLoop(_, _)
RangeLoop(rev, left) ==
  IF left = {} THEN {rev}
  ELSE UNION {RangeLoop(Put(rev, formats[k], k), left \ {k}) : k \in left}

ReversedOutcomes == RangeLoop(<<>>, DOMAIN formats)

reversedFormats == CHOOSE rev \in ReversedOutcomes : TRUE

\* The zero value of webcam.PixelFormat, what a Go map answers for a
\* missing key.
ZeroPixelFormat == "0"

\* pf := c.reversedFormats[p.FrameFormat]
LookupNative(f) ==
  IF f \in DOMAIN reversedFormats THEN reversedFormats[f] ELSE ZeroPixelFormat

\* The canonical formats VideoRecord is asked for: one of the table and one
\* that the table does not hold.
ReqFormats == {"FormatMJPEG", "FormatI444"}
ReqRates == {0, 30}

\* The picture sizes VideoRecord is asked for, as <<width, height>>.
DefaultSize == <<640, 480>>
ReqSizes == {DefaultSize, <<1280, 720>>}

\* What the device answers to SetImageFormat(pf, width, height): the format
\* and size it has set, the requested ones or, where the hardware cannot
\* do them, others.
Echo(pf, size) == [pf |-> pf, w |-> size[1], h |-> size[2]]
Downgrade == [pf |-> "V4L2_PIX_FMT_YUYV", w |-> 320, h |-> 240]
Answers(pf, size) == {Echo(pf, size), Downgrade}

----------------------------------------------------------------------------
\* Capability enumeration: camera.Properties.

\* The standard resolutions, in the order of the list.
supportedResolutions ==
  << <<320, 240>>, <<640, 480>>, <<768, 576>>, <<800, 600>>, <<1024, 768>>,
     <<1280, 854>>, <<1280, 960>>, <<1280, 1024>>, <<1400, 1050>>,
     <<1600, 1200>>, <<2048, 1536>>, <<320, 200>>, <<800, 480>>, <<854, 480>>,
     <<1024, 600>>, <<1152, 768>>, <<1280, 720>>, <<1280, 768>>, <<1366, 768>>,
     <<1280, 800>>, <<1440, 900>>, <<1440, 960>>, <<1680, 1050>>,
     <<1920, 1080>>, <<2048, 1080>>, <<1920, 1200>>, <<2560, 1600>> >>

\* webcam.FrameSize, one entry of GetSupportedFrameSizes.
FrameSize(minW, maxW, stepW, minH, maxH, stepH) ==
  [MinWidth |-> minW, MaxWidth |-> maxW, StepWidth |-> stepW,
   MinHeight |-> minH, MaxHeight |-> maxH, StepHeight |-> stepH]

\* The entries a device reports in the model: a discrete size, three stepped
\* ranges, and a range whose width step alone is zero.
FixedSize == FrameSize(640, 640, 0, 480, 480, 0)
Stepped1 == FrameSize(320, 1920, 1, 240, 1080, 1)
Stepped7 == FrameSize(0, 2560, 7, 0, 1600, 7)
Stepped64 == FrameSize(640, 1280, 64, 480, 1024, 64)
ZeroWidthStep == FrameSize(320, 800, 0, 240, 600, 8)

SizeLists ==
  {<<>>, <<FixedSize>>, <<Stepped1>>, <<Stepped7>>, <<Stepped64>>,
   <<ZeroWidthStep>>, <<FixedSize, Stepped7>>, <<Stepped64, FixedSize>>}

\* The native formats a device reports: two of the Format Table and one the
\* table does not hold.
DevFormats == {"V4L2_PIX_FMT_YUYV", "V4L2_PIX_FMT_MJPEG", "V4L2_PIX_FMT_H264"}

\* A device: the formats of GetSupportedFormats, each with the entries of
\* GetSupportedFrameSizes.
Devices == UNION {[S -> SizeLists] : S \in SUBSET DevFormats}

\* GetSupportedFormats answers a Go map; `range` visits its keys in an order
\* the runtime chooses anew for every loop.
Orders(device) ==
  LET S == DOMAIN device
  IN {o \in [1..Cardinality(S) -> S] : \A a, b \in DOMAIN o : a # b => o[a] # o[b]}

\* prop.Media
Media(width, height, format) ==
  [Width |-> width, Height |-> height, FrameFormat |-> format]

\* if width < minWidth || width > maxWidth || height < minHeight || height > maxHeight
OutOfRange(fs, width, height) ==
  \/ width < fs.MinWidth
  \/ width > fs.MaxWidth
  \/ height < fs.MinHeight
  \/ height > fs.MaxHeight

\* Faulty variant, used to show the property depends on this step: only the width is tested against its step.
OffStepWidthOnly(fs, width, height) ==
  (width - fs.MinWidth) % fs.StepWidth # 0

\* if (width-minWidth)%stepWidth != 0 || (height-minHeight)%stepHeight != 0
OffStep(fs, width, height) ==
  \/ (width - fs.MinWidth) % fs.StepWidth # 0
  \/ (height - fs.MinHeight) % fs.StepHeight # 0

\* for _, supportedResolution := range supportedResolutions: the resolutions
\* of the list that pass both tests are appended in the order of the list.
ResolutionLoop(properties, fs, supportedFormat) ==
  LET Kept(r) == IF OutOfRange(fs, r[1], r[2]) THEN FALSE
                 ELSE IF OffStep(fs, r[1], r[2]) THEN FALSE
                 ELSE TRUE
      kept == SelectSeq(supportedResolutions, Kept)
  IN properties \o [k \in 1..Len(kept) |->
                      Media(kept[k][1], kept[k][2], supportedFormat)]

\* if frameSize.StepWidth == 0 || frameSize.StepHeight == 0
ZeroStep(fs) == fs.StepWidth = 0 \/ fs.StepHeight = 0

\* for _, frameSize := range c.cam.GetSupportedFrameSizes(format)
RECURSIVE SizeLoop(_, _, _, _)
SizeLoop(properties, format, sizes, j) ==
  IF j > Len(sizes) THEN properties
  ELSE IF format \notin DOMAIN formats
  THEN SizeLoop(properties, format, sizes, j + 1)
  ELSE IF ZeroStep(sizes[j])
  THEN SizeLoop(Append(properties,
                       Media(sizes[j].MaxWidth, sizes[j].MaxHeight, formats[format])),
                format, sizes, j + 1)
  ELSE SizeLoop(ResolutionLoop(properties, sizes[j], formats[format]),
                format, sizes, j + 1)

\* for format := range c.cam.GetSupportedFormats()
RECURSIVE FormatLoop(_, _, _, _)
FormatLoop(properties, device, order, i) ==
  IF i > Len(order) THEN properties
  ELSE FormatLoop(SizeLoop(properties, order[i], device[order[i]], 1),
                  device, order, i + 1)

\* The descriptors one query returns when the map is visited in `order`.
PropertiesOf(device, order) == FormatLoop(<<>>, device, order, 1)

NoProps == [device |-> <<>>, n |-> 0, out |-> <<>>, prev |-> <<>>]

----------------------------------------------------------------------------
\* Device requests, as recorded in ev.ops.
Op(name, h) == [op |-> name, h |-> h, pf |-> "-"]

NoArg == [fmt |-> "-", dec |-> FALSE, rate |-> 0, w |-> 0, h |-> 0]
NoEv == [call |-> "none", arg |-> NoArg, ops |-> <<>>, ret |-> Nil]
Ev(call, arg, ops, ret) == [call |-> call, arg |-> arg, ops |-> ops, ret |-> ret]

NoDev == [st |-> "none", streaming |-> FALSE, closes |-> 0, stops |-> 0]

IdleThread ==
  [pc |-> "idle", r |-> 0, i |-> 0, b |-> <<>>, n |-> 0,
   nEmpty |-> 0, nDec |-> 0, nWait |-> 0, last |-> "-",
   res |-> [img |-> NoImage, err |-> Nil],
   hit |-> 0, late |-> FALSE]

\* A reader closure: the handle and context it captured, the request p with
\* the decoder made for its format, its scratch buffer, and as history the
\* answer of the device to the set-format request, whether a Close() has
\* returned since it was made and the length of the longest frame it has
\* read.
NewReader(h, p, actual) ==
  [cam |-> h, cancelled |-> FALSE, buf |-> <<>>, p |-> p, actual |-> actual,
   closed |-> FALSE, maxLen |-> 0]

IdleClose == [pc |-> "idle", calls |-> 0, locked |-> FALSE]

\* The reader of the AVFoundation camera between two calls: the loop counter,
\* the error and the frame of the last rc.Read, and as history the errors of
\* the reads of the call and the number of its Decode calls.
IdleAV ==
  [pc |-> "idle", i |-> 0, err |-> Nil, frameBuffer |-> <<>>,
   reads |-> <<>>, decodes |-> 0,
   res |-> [img |-> NoImage, release |-> "nil", err |-> Nil]]

\* A session as newCamera makes it.
InitSession ==
  /\ cam = 0
  /\ cancel = 0
  /\ mutex = Free
  /\ dev = [h \in Handles |-> NoDev]
  /\ readers = <<>>
  /\ th = [t \in Threads |-> IdleThread]
  /\ cl = IdleClose
  /\ ev = NoEv
  /\ past = "none"
  /\ av = IdleAV

Init ==
  /\ InitSession
  /\ props = NoProps

NumHandles == Cardinality({h \in Handles : dev[h].st # "none"})

----------------------------------------------------------------------------
\* No next() call is in flight.
Quiet == \A t \in Threads : th[t].pc = "idle"

\* camera.Open.  A failing call changes nothing; it is taken between next() calls.
Open(ok) ==
  /\ cl.pc = "idle"
  /\ NumHandles < MaxHandles
  /\ IF ok
     THEN LET h == NumHandles + 1
          IN /\ dev' = [dev EXCEPT ![h] = [NoDev EXCEPT !.st = "open"]]
             /\ cam' = h
             /\ ev' = Ev("Open", NoArg, <<Op("Open", h), Op("SetBufferCount", h)>>, Nil)
     ELSE /\ Quiet
          /\ UNCHANGED <<dev, cam>>
          /\ ev' = Ev("Open", NoArg, <<Op("Open", 0)>>, Err("open failed"))
  /\ UNCHANGED <<props, av, cancel, mutex, readers, th, cl, past>>

\* What the device accepts: a released handle refuses every request, and a
\* handle that streams refuses to be configured or started again, so that a
\* handle carries at most one reader.
Accepts(h, req) ==
  /\ dev[h].st = "open"
  /\ req \in {"SetImageFormat", "SetFramerate", "StartStreaming"} => ~dev[h].streaming
  /\ req \in {"WaitForFrame", "ReadFrame"} => dev[h].streaming

\* Faulty variant, used to show the property depends on this step: the cancellation is registered before the stream is started.
VideoRecordRegistersEarly(f, size, rate, dec, fail, actual) ==
  /\ cl.pc = "idle"
  /\ cam # 0
  /\ fail = "rate" => rate > 0
  /\ ~dec => fail = "none"
  /\ actual \in Answers(LookupNative(f), size)
  /\ (~dec \/ fail = "format") => actual = Echo(LookupNative(f), size)
  /\ (~dec \/ fail # "none") => Quiet
  /\ (dec /\ fail = "none") => Accepts(cam, "StartStreaming")
  /\ LET arg == [fmt |-> f, dec |-> dec, rate |-> rate, w |-> size[1], h |-> size[2]]
         p == [fmt |-> f, w |-> size[1], h |-> size[2]]
         pf == LookupNative(f)
         sif == <<[op |-> "SetImageFormat", h |-> cam, pf |-> pf]>>
         sfr == IF rate > 0 THEN <<Op("SetFramerate", cam)>> ELSE <<>>
         sst == <<Op("StartStreaming", cam)>>
     IN CASE ~dec ->
               /\ ev' = Ev("VideoRecord", arg, <<>>, Err("unsupported format"))
               /\ UNCHANGED <<cancel, dev, readers>>
          [] dec /\ fail = "format" ->
               /\ ev' = Ev("VideoRecord", arg, sif, Err("set format failed"))
               /\ UNCHANGED <<cancel, dev, readers>>
          [] dec /\ fail = "rate" ->
               /\ ev' = Ev("VideoRecord", arg, sif \o sfr, Err("set framerate failed"))
               /\ UNCHANGED <<cancel, dev, readers>>
          [] dec /\ fail = "start" ->
               /\ ev' = Ev("VideoRecord", arg, sif \o sfr \o sst, Err("start streaming failed"))
               /\ readers' = Append(readers, NewReader(cam, p, actual))
               /\ cancel' = Len(readers) + 1
               /\ UNCHANGED dev
          [] OTHER ->
               /\ dev' = [dev EXCEPT ![cam].streaming = TRUE]
               /\ readers' = Append(readers, NewReader(cam, p, actual))
               /\ cancel' = Len(readers) + 1
               /\ ev' = Ev("VideoRecord", arg, sif \o sfr \o sst, Nil)
  /\ UNCHANGED <<props, av, cam, mutex, th, cl, past>>

\* camera.VideoRecord.  f and rate are the requested format and frame rate,
\* dec is whether frame.NewDecoder knows f, fail is the device request that
\* fails (none, the set-format, the set-framerate or the start-stream).
\* Calling it on a session that was never opened dereferences a nil handle;
\* the model starts from sessions that were opened.  A failing call changes
\* nothing another goroutine reads, so it is taken between next() calls.
VideoRecord(f, size, rate, dec, fail, actual) ==
  /\ cl.pc = "idle"
  /\ cam # 0
  /\ fail = "rate" => rate > 0
  /\ ~dec => fail = "none"
  /\ actual \in Answers(LookupNative(f), size)
  /\ (~dec \/ fail = "format") => actual = Echo(LookupNative(f), size)
  /\ (~dec \/ fail # "none") => Quiet
  /\ (dec /\ fail = "none") => Accepts(cam, "StartStreaming")
  /\ LET arg == [fmt |-> f, dec |-> dec, rate |-> rate, w |-> size[1], h |-> size[2]]
         p == [fmt |-> f, w |-> size[1], h |-> size[2]]
         pf == LookupNative(f)
         sif == <<[op |-> "SetImageFormat", h |-> cam, pf |-> pf]>>
         sfr == IF rate > 0 THEN <<Op("SetFramerate", cam)>> ELSE <<>>
         sst == <<Op("StartStreaming", cam)>>
     IN CASE ~dec ->
               /\ ev' = Ev("VideoRecord", arg, <<>>, Err("unsupported format"))
               /\ UNCHANGED <<cancel, dev, readers>>
          [] dec /\ fail = "format" ->
               /\ ev' = Ev("VideoRecord", arg, sif, Err("set format failed"))
               /\ UNCHANGED <<cancel, dev, readers>>
          [] dec /\ fail = "rate" ->
               /\ ev' = Ev("VideoRecord", arg, sif \o sfr, Err("set framerate failed"))
               /\ UNCHANGED <<cancel, dev, readers>>
          [] dec /\ fail = "start" ->
               /\ ev' = Ev("VideoRecord", arg, sif \o sfr \o sst, Err("start streaming failed"))
               /\ UNCHANGED <<cancel, dev, readers>>
          [] OTHER ->
               /\ dev' = [dev EXCEPT ![cam].streaming = TRUE]
               /\ readers' = Append(readers, NewReader(cam, p, actual))
               /\ cancel' = Len(readers) + 1
               /\ ev' = Ev("VideoRecord", arg, sif \o sfr \o sst, Nil)
  /\ UNCHANGED <<props, av, cam, mutex, th, cl, past>>

----------------------------------------------------------------------------
\* c.mutex.Lock() returns once the mutex is free.
CanLock(m) == m = Free

\* Faulty variant, used to show the property depends on this step: after the cancellation Close() goes on without taking the lock.
CloseBeginNoLock ==
  /\ cl.pc = "idle"
  /\ cl.calls < MaxCloses
  /\ IF cam = 0
     THEN /\ cl' = [cl EXCEPT !.calls = @ + 1]
          /\ ev' = Ev("Close", NoArg, <<>>, Nil)
          /\ UNCHANGED <<readers, th>>
     ELSE IF cancel # 0
     THEN /\ readers' = [readers EXCEPT ![cancel].cancelled = TRUE]
          /\ th' = [t \in Threads |->
                      IF th[t].pc = "wait" /\ th[t].r = cancel
                      THEN [th[t] EXCEPT !.hit = th[t].nWait] ELSE th[t]]
          /\ cl' = [cl EXCEPT !.pc = "stop"]
          /\ ev' = Ev("Close.cancel", NoArg, <<>>, Nil)
     ELSE /\ cl' = [cl EXCEPT !.pc = "release"]
          /\ ev' = Ev("Close.begin", NoArg, <<>>, Nil)
          /\ UNCHANGED <<readers, th>>
  /\ UNCHANGED <<props, av, cam, cancel, mutex, dev, past>>

\* camera.Close, up to the lock: the nil check of c.cam, and with a reader
\* registered, its cancellation.
CloseBegin ==
  /\ cl.pc = "idle"
  /\ cl.calls < MaxCloses
  /\ IF cam = 0
     THEN /\ cl' = [cl EXCEPT !.calls = @ + 1]
          /\ ev' = Ev("Close", NoArg, <<>>, Nil)
          /\ UNCHANGED <<readers, th>>
     ELSE IF cancel # 0
     THEN /\ readers' = [readers EXCEPT ![cancel].cancelled = TRUE]
          /\ th' = [t \in Threads |->
                      IF th[t].pc = "wait" /\ th[t].r = cancel
                      THEN [th[t] EXCEPT !.hit = th[t].nWait] ELSE th[t]]
          /\ cl' = [cl EXCEPT !.pc = "lock"]
          /\ ev' = Ev("Close.cancel", NoArg, <<>>, Nil)
     ELSE /\ cl' = [cl EXCEPT !.pc = "release"]
          /\ ev' = Ev("Close.begin", NoArg, <<>>, Nil)
          /\ UNCHANGED <<readers, th>>
  /\ UNCHANGED <<props, av, cam, cancel, mutex, dev, past>>

\* c.mutex.Lock(); defer c.mutex.Unlock()
CloseLock ==
  /\ cl.pc = "lock"
  /\ CanLock(mutex)
  /\ mutex' = Closer
  /\ cl' = [cl EXCEPT !.pc = "stop", !.locked = TRUE]
  /\ ev' = Ev("Close.lock", NoArg, <<>>, Nil)
  /\ UNCHANGED <<props, av, cam, cancel, dev, readers, th, past>>

\* c.cam.StopStreaming(); c.cancel = nil
CloseStop ==
  /\ cl.pc = "stop"
  /\ dev' = [dev EXCEPT ![cam].streaming = FALSE, ![cam].stops = @ + 1]
  /\ cancel' = 0
  /\ cl' = [cl EXCEPT !.pc = "release"]
  /\ ev' = Ev("Close.stop", NoArg, <<Op("StopStreaming", cam)>>, Nil)
  /\ UNCHANGED <<props, av, cam, mutex, readers, th, past>>

\* c.cam.Close()
CloseRelease ==
  /\ cl.pc = "release"
  /\ dev' = [dev EXCEPT ![cam].st = "released", ![cam].streaming = FALSE,
                        ![cam].closes = @ + 1]
  /\ cl' = [cl EXCEPT !.pc = "ret"]
  /\ ev' = Ev("Close.release", NoArg, <<Op("Close", cam)>>, Nil)
  /\ UNCHANGED <<props, av, cam, cancel, mutex, readers, th, past>>

\* return nil, and the deferred Unlock when the lock was taken.
CloseReturn ==
  /\ cl.pc = "ret"
  /\ mutex' = IF cl.locked THEN Free ELSE mutex
  /\ cl' = [pc |-> "idle", calls |-> cl.calls + 1, locked |-> FALSE]
  /\ readers' = [k \in 1..Len(readers) |-> [readers[k] EXCEPT !.closed = TRUE]]
  /\ ev' = Ev("Close", NoArg, <<>>, Nil)
  /\ UNCHANGED <<props, av, cam, cancel, dev, th, past>>

----------------------------------------------------------------------------
\* The reader closure VideoRecord returns: one next() call of goroutine t.

\* Faulty variant, used to show the property depends on this step: the loop allows one attempt more.
LoopCondOneMore(i) == i <= maxEmptyFrameCount

\* for i := 0; i < maxEmptyFrameCount; i++
LoopCond(i) == i < maxEmptyFrameCount

\* Faulty variant, used to show the property depends on this step: the cancellation check is missing.
CtxErrIgnored(rd) == FALSE

\* ctx.Err() != nil
CtxErr(rd) == rd.cancelled

\* Faulty variant, used to show the property depends on this step: a timeout is retried like an empty frame.
WaitSwitchRetry(w) ==
  CASE w = "nil" -> [go |-> "read", err |-> Nil]
    [] w = "timeout" -> [go |-> "retry", err |-> Nil]
    [] OTHER -> [go |-> "ret", err |-> waitErr]

\* The switch on the error of cam.WaitForFrame: go on to the read, or return.
WaitSwitch(w) ==
  CASE w = "nil" -> [go |-> "read", err |-> Nil]
    [] w = "timeout" -> [go |-> "ret", err |-> errReadTimeout]
    [] OTHER -> [go |-> "ret", err |-> waitErr]

\* Faulty variant, used to show the property depends on this step: a read error is retried like an empty frame.
ReadSwitchRetry(b, ok) ==
  IF ~ok \/ Len(b) = 0 THEN [go |-> "retry", err |-> Nil]
  ELSE [go |-> "decode", err |-> Nil]

\* The checks after cam.ReadFrame: return the error, retry on an empty
\* frame, or go on to the copy and the decode.
ReadSwitch(b, ok) ==
  IF ~ok THEN [go |-> "ret", err |-> readErr]
  ELSE IF Len(b) = 0 THEN [go |-> "retry", err |-> Nil]
  ELSE [go |-> "decode", err |-> Nil]

\* Faulty variant, used to show the property depends on this step: the buffer is allocated once and never grows again.
GrowOnce(buf, b) == IF Len(buf) = 0 THEN [k \in 1..Len(b) |-> 0] ELSE buf

\* if len(b) > len(buf) { buf = make([]byte, len(b)) }
Grow(buf, b) == IF Len(b) > Len(buf) THEN [k \in 1..Len(b) |-> 0] ELSE buf

Min(a, b) == IF a < b THEN a ELSE b

\* n := copy(buf, b): the bytes copied are the shorter of the two lengths.
Copy(buf, b) ==
  LET n == Min(Len(buf), Len(b))
  IN [buf |-> [k \in 1..Len(buf) |-> IF k <= n THEN b[k] ELSE buf[k]], n |-> n]

\* Faulty variant, used to show the property depends on this step: the frame is decoded with the format and size the device has set.
DecodeCallActual(rd) ==
  [NoArg EXCEPT !.fmt = IF rd.actual.pf \in DOMAIN formats
                        THEN formats[rd.actual.pf] ELSE "-",
                !.dec = TRUE, !.w = rd.actual.w, !.h = rd.actual.h]

\* decoder.Decode(buf[:n], p.Width, p.Height) of reader rd: the decoder is
\* the one made for p.FrameFormat, the size is the one of p.
DecodeCall(rd) ==
  [NoArg EXCEPT !.fmt = rd.p.fmt, !.dec = TRUE, !.w = rd.p.w, !.h = rd.p.h]

\* buf[:n], the argument of decoder.Decode
DecodeArg(buf, n) == SubSeq(buf, 1, n)

\* Faulty variant, used to show the property depends on this step: a decoder error is returned instead of retried.
DecodeRetryNever(err) == FALSE

\* if errors.Is(err, frame.DecoderError) { continue }
DecodeRetry(err) == ErrorsIs(err, DecoderError)

\* What a completed call leaves in past: whether it timed out, or else met
\* an empty or undecodable frame.
PastOf(s) ==
  IF s.res.err = errReadTimeout THEN "timeout"
  ELSE IF s.nEmpty + s.nDec > 0 THEN "retried" ELSE "none"

Return(s, img, err) == [s EXCEPT !.pc = "ret", !.res = [img |-> img, err |-> err]]

\* next() is called on reader r: c.mutex.Lock(); defer c.mutex.Unlock(); i := 0
NextLock(t, r) ==
  /\ th[t].pc = "idle"
  /\ r \in 1..Len(readers)
  /\ CanLock(mutex)
  /\ mutex' = t
  /\ th' = [th EXCEPT ![t] = [IdleThread EXCEPT !.pc = "loop", !.r = r,
                                                !.late = readers[r].closed]]
  /\ ev' = Ev("next.lock", NoArg, <<>>, Nil)
  /\ UNCHANGED <<props, av, cam, cancel, dev, readers, cl, past>>

\* The top of an iteration: the loop condition, the cancellation check, and
\* the call of cam.WaitForFrame, in which the goroutine then blocks.
NextCheck(t) ==
  LET s == th[t] IN
  /\ s.pc = "loop"
  /\ IF ~LoopCond(s.i)
     THEN /\ th' = [th EXCEPT ![t] = Return(s, NoImage, errEmptyFrame)]
          /\ ev' = Ev("next.exhausted", NoArg, <<>>, errEmptyFrame)
     ELSE IF CtxErr(readers[s.r])
     THEN /\ th' = [th EXCEPT ![t] = Return(s, NoImage, EOF)]
          /\ ev' = Ev("next.cancelled", NoArg, <<>>, EOF)
     ELSE /\ th' = [th EXCEPT ![t] = [s EXCEPT !.pc = "wait", !.nWait = @ + 1]]
          /\ ev' = Ev("next.wait", NoArg, <<Op("WaitForFrame", readers[s.r].cam)>>, Nil)
  /\ UNCHANGED <<props, av, cam, cancel, mutex, dev, readers, cl, past>>

\* cam.WaitForFrame returns w: nil, a *webcam.Timeout or another error.
NextWait(t, w) ==
  LET s == th[t]
      d == WaitSwitch(w) IN
  /\ s.pc = "wait"
  /\ w = "error" \/ Accepts(readers[s.r].cam, "WaitForFrame")
  /\ th' = [th EXCEPT ![t] =
              CASE d.go = "read" -> [s EXCEPT !.pc = "read", !.last = w]
                [] d.go = "retry" -> [s EXCEPT !.pc = "loop", !.i = @ + 1, !.last = w]
                [] OTHER -> Return([s EXCEPT !.last = w], NoImage, d.err)]
  /\ ev' = Ev("next.waited", NoArg, <<>>, d.err)
  /\ UNCHANGED <<props, av, cam, cancel, mutex, dev, readers, cl, past>>

\* cam.ReadFrame returns frame b (ok) or an error; a non-empty frame is
\* copied into the scratch buffer of the reader.
NextRead(t, b, ok) ==
  LET s == th[t]
      d == ReadSwitch(b, ok)
      c == Copy(Grow(readers[s.r].buf, b), b)
      kind == IF ~ok THEN "readerr" ELSE IF Len(b) = 0 THEN "empty" ELSE "data"
      s1 == [s EXCEPT !.last = kind, !.nEmpty = IF kind = "empty" THEN @ + 1 ELSE @] IN
  /\ s.pc = "read"
  /\ ~ok => b = <<>>
  /\ ok => Accepts(readers[s.r].cam, "ReadFrame")
  /\ CASE d.go = "decode" ->
            /\ readers' = [readers EXCEPT ![s.r].buf = c.buf,
                                          ![s.r].maxLen = IF Len(b) > @ THEN Len(b) ELSE @]
            /\ th' = [th EXCEPT ![t] = [s1 EXCEPT !.pc = "decode", !.b = b, !.n = c.n]]
       [] d.go = "retry" ->
            /\ th' = [th EXCEPT ![t] = [s1 EXCEPT !.pc = "loop", !.i = @ + 1]]
            /\ UNCHANGED readers
       [] OTHER ->
            /\ th' = [th EXCEPT ![t] = Return(s1, NoImage, d.err)]
            /\ UNCHANGED readers
  /\ ev' = Ev("next.read", NoArg, <<Op("ReadFrame", readers[s.r].cam)>>, d.err)
  /\ UNCHANGED <<props, av, cam, cancel, mutex, dev, cl, past>>

\* decoder.Decode(buf[:n], p.Width, p.Height): ok is whether the format
\* decoder accepts the data.
NextDecode(t, ok) ==
  LET s == th[t]
      d == Decode(DecodeArg(readers[s.r].buf, s.n), ok) IN
  /\ s.pc = "decode"
  /\ th' = [th EXCEPT ![t] =
              IF DecodeRetry(d.err)
              THEN [s EXCEPT !.pc = "loop", !.i = @ + 1, !.nDec = @ + 1,
                             !.last = "decerr", !.b = <<>>, !.n = 0]
              ELSE Return([s EXCEPT !.last = IF ok THEN "frame" ELSE "decerr",
                                    !.nDec = IF ok THEN @ ELSE @ + 1],
                          d.img, d.err)]
  /\ ev' = Ev("next.decode", DecodeCall(readers[s.r]), <<>>, d.err)
  /\ UNCHANGED <<props, av, cam, cancel, mutex, dev, readers, cl, past>>

\* The return of next(), with the deferred c.mutex.Unlock().
NextReturn(t) ==
  LET s == th[t] IN
  /\ s.pc = "ret"
  /\ mutex' = Free
  /\ th' = [th EXCEPT ![t] = IdleThread]
  /\ past' = PastOf(s)
  /\ ev' = Ev("next", NoArg, <<>>, s.res.err)
  /\ UNCHANGED <<props, av, cam, cancel, dev, readers, cl>>

----------------------------------------------------------------------------
\* camera.Properties: one query.  The device is not changed by it.
Properties(order) ==
  /\ cam # 0
  /\ props.n < MaxQueries
  /\ props' = [props EXCEPT !.n = @ + 1, !.prev = props.out,
                            !.out = PropertiesOf(props.device, order)]
  /\ UNCHANGED <<cam, cancel, mutex, dev, readers, th, cl, ev, past, av>>

----------------------------------------------------------------------------
\* The reader of the AVFoundation camera (camera.VideoRecord of the darwin
\* build): one call, with rc.Read and decoder.Decode answering
\* nondeterministically.
maxDecodeErrors == 3

\* fmt.Errorf("too many decoder errors: %w", err), and the Unwrap of its result
Errorf(err) == [t |-> "wrapError", v |-> err]
UnwrapErrorf(err) == IF err.t = "wrapError" THEN err.v ELSE Nil

\* The errors rc.Read answers with: three that are decoder-classified and
\* one that is not.
sessionErr == Err("session closed")
ReadErrors ==
  {DecoderError, decoderError(decodeCause), decoderError(Err("short frame")),
   sessionErr}

\* Faulty variant, used to show the property depends on this step: every read error is retried.
AVRetryAny(err) == TRUE

\* if errors.Is(err, frame.DecoderError) { continue }
AVRetry(err) == ErrorsIs(err, DecoderError)

\* for i := 0; i < maxDecodeErrors; i++
AVLoopCond(i) == i < maxDecodeErrors

AVResult(img, release, err) == [img |-> img, release |-> release, err |-> err]

\* The reader is called: var err error; var frameBuffer []byte; i := 0
AVCall ==
  /\ av.pc = "idle"
  /\ av' = [IdleAV EXCEPT !.pc = "loop"]
  /\ UNCHANGED <<cam, cancel, mutex, dev, readers, th, cl, ev, past, props>>

\* One iteration up to the decode: rc.Read answers frame b (e = Nil) or the
\* error e.
AVRead(b, e) ==
  /\ av.pc = "loop"
  /\ AVLoopCond(av.i)
  /\ e # Nil => b = <<>>
  /\ LET s == [av EXCEPT !.err = e, !.frameBuffer = b, !.reads = Append(@, e)]
     IN av' = IF e # Nil
              THEN IF AVRetry(e)
                   THEN [s EXCEPT !.i = @ + 1]
                   ELSE [s EXCEPT !.pc = "ret", !.res = AVResult(NoImage, "func", e)]
              ELSE [s EXCEPT !.pc = "decode"]
  /\ UNCHANGED <<cam, cancel, mutex, dev, readers, th, cl, ev, past, props>>

\* return decoder.Decode(frameBuffer, property.Width, property.Height)
AVDecode(ok) ==
  /\ av.pc = "decode"
  /\ LET d == Decode(av.frameBuffer, ok)
     IN av' = [av EXCEPT !.pc = "ret", !.decodes = @ + 1,
                         !.res = AVResult(d.img, d.release, d.err)]
  /\ UNCHANGED <<cam, cancel, mutex, dev, readers, th, cl, ev, past, props>>

\* The loop ran out: return nil, nil, fmt.Errorf("too many decoder errors: %w", err)
AVExhausted ==
  /\ av.pc = "loop"
  /\ ~AVLoopCond(av.i)
  /\ av' = [av EXCEPT !.pc = "ret", !.res = AVResult(NoImage, "nil", Errorf(av.err))]
  /\ UNCHANGED <<cam, cancel, mutex, dev, readers, th, cl, ev, past, props>>

\* The caller has the result.
AVReturn ==
  /\ av.pc = "ret"
  /\ av' = IdleAV
  /\ UNCHANGED <<cam, cancel, mutex, dev, readers, th, cl, ev, past, props>>

----------------------------------------------------------------------------
\* The whole life of a session.  Recordings are asked for at one size, the
\* device sets what it is asked for, and it refuses a format the table does
\* not hold at one of the three requests; SpecDims follows the other
\* answers.
Next ==
  \/ \E ok \in BOOLEAN : Open(ok)
  \/ \E f \in ReqFormats, rate \in ReqRates, dec \in BOOLEAN,
        fail \in {"none", "format", "rate", "start"} :
          /\ f \notin DOMAIN reversedFormats => fail # "none"
          /\ VideoRecord(f, DefaultSize, rate, dec, fail, Echo(LookupNative(f), DefaultSize))
  \/ CloseBegin
  \/ CloseLock
  \/ CloseStop
  \/ CloseRelease
  \/ CloseReturn
  \/ \E t \in Threads, r \in Handles : NextLock(t, r)
  \/ \E t \in Threads : NextCheck(t)
  \/ \E t \in Threads, w \in {"nil", "timeout", "error"} : NextWait(t, w)
  \/ \E t \in Threads, b \in LifeFrames, ok \in BOOLEAN : NextRead(t, b, ok)
  \/ \E t \in Threads, ok \in BOOLEAN : NextDecode(t, ok)
  \/ \E t \in Threads : NextReturn(t)

Spec == Init /\ [][Next]_vars

\* One session that is opened once and recorded once, read with frames of
\* every content and length up to MaxFrameLen.
NextFrames ==
  \/ \E ok \in BOOLEAN : cam = 0 /\ Open(ok)
  \/ \E f \in ReqFormats, rate \in ReqRates, dec \in BOOLEAN,
        fail \in {"none", "format", "rate", "start"} :
          /\ f \notin DOMAIN reversedFormats => fail # "none"
          /\ VideoRecord(f, DefaultSize, rate, dec, fail, Echo(LookupNative(f), DefaultSize))
  \/ CloseBegin
  \/ CloseLock
  \/ CloseStop
  \/ CloseRelease
  \/ CloseReturn
  \/ \E t \in Threads, r \in Handles : NextLock(t, r)
  \/ \E t \in Threads : NextCheck(t)
  \/ \E t \in Threads, w \in {"nil", "timeout", "error"} : NextWait(t, w)
  \/ \E t \in Threads, b \in Frames, ok \in BOOLEAN : NextRead(t, b, ok)
  \/ \E t \in Threads, ok \in BOOLEAN : NextDecode(t, ok)
  \/ \E t \in Threads : NextReturn(t)

SpecFrames == Init /\ [][NextFrames]_vars

\* One session that is opened once, asked for recordings of every format
\* and size of the model, with a device that sets what it is asked for or
\* something else.
NextDims ==
  \/ \E ok \in BOOLEAN : cam = 0 /\ Open(ok)
  \/ \E f \in ReqFormats, size \in ReqSizes, rate \in ReqRates, dec \in BOOLEAN,
        fail \in {"none", "format", "rate", "start"},
        actual \in {Downgrade} \cup {Echo(pf, sz) : pf \in {LookupNative(g) : g \in ReqFormats},
                                                   sz \in ReqSizes} :
          VideoRecord(f, size, rate, dec, fail, actual)
  \/ CloseBegin
  \/ CloseLock
  \/ CloseStop
  \/ CloseRelease
  \/ CloseReturn
  \/ \E t \in Threads, r \in Handles : NextLock(t, r)
  \/ \E t \in Threads : NextCheck(t)
  \/ \E t \in Threads, w \in {"nil", "timeout", "error"} : NextWait(t, w)
  \/ \E t \in Threads, b \in LifeFrames, ok \in BOOLEAN : NextRead(t, b, ok)
  \/ \E t \in Threads, ok \in BOOLEAN : NextDecode(t, ok)
  \/ \E t \in Threads : NextReturn(t)

SpecDims == Init /\ [][NextDims]_vars

\* An opened session whose device reports any of Devices, queried with
\* Properties.
InitProps ==
  /\ InitSession
  /\ \E device \in Devices : props = [NoProps EXCEPT !.device = device]

NextProps ==
  \/ \E ok \in BOOLEAN : cam = 0 /\ Open(ok)
  \/ \E order \in Orders(props.device) : Properties(order)

SpecProps == InitProps /\ [][NextProps]_vars

\* The reader of the AVFoundation camera, called again and again.
NextAV ==
  \/ AVCall
  \/ \E b \in Frames, e \in ReadErrors \cup {Nil} : AVRead(b, e)
  \/ \E ok \in BOOLEAN : AVDecode(ok)
  \/ AVExhausted
  \/ AVReturn

SpecAV == Init /\ [][NextAV]_vars

----------------------------------------------------------------------------
\* Results of next(), as the reader closure returns them.
Failed(err) == [img |-> NoImage, err |-> err]
Decoded(frame) == [img |-> frame, err |-> Nil]

\* C1, as stated: a next() call that is blocked in WaitForFrame when Close()
\* cancels its reader returns io.EOF once the wait unblocks, whatever the
\* wait and the read deliver, and Close() does not return before that call
\* has completed.
C1_CancelAlwaysEOF ==
  \A t \in Threads :
    th[t].hit > 0 =>
      /\ cl.pc = "lock"
      /\ th[t].pc = "ret" => th[t].res.err = EOF

\* C1, amended: a next() call on the registered reader that is blocked in
\* WaitForFrame when Close() cancels it starts no further wait; it returns
\* the outcome of the attempt in progress when that is a timeout, a wait or
\* read error or a frame that decodes, and when the attempt delivers an
\* empty or undecodable frame it returns io.EOF, or errEmptyFrame if that
\* was the last attempt of the budget; Close() is still waiting for the
\* lock until the call has completed.
C1_CancelDuringWait ==
  \A t \in Threads :
    LET s == th[t] IN
    s.hit > 0 =>
      /\ cl.pc = "lock"
      /\ s.nWait = s.hit
      /\ s.pc = "ret" =>
           s.res = CASE s.last = "timeout" -> Failed(errReadTimeout)
                     [] s.last = "error" -> Failed(waitErr)
                     [] s.last = "readerr" -> Failed(readErr)
                     [] s.last = "frame" -> Decoded(s.b)
                     [] OTHER -> IF s.i < maxEmptyFrameCount
                                 THEN Failed(EOF) ELSE Failed(errEmptyFrame)

\* C1, witness: a call cancelled during its wait has returned io.EOF.
C1_Witness ==
  \E t \in Threads :
    /\ th[t].hit > 0
    /\ th[t].pc = "ret"
    /\ th[t].last = "empty"
    /\ th[t].res = Failed(EOF)

\* C2: Close() releases a device handle at most once and stops its stream
\* at most once, however often it is called.
C2_ReleaseOnce ==
  \A h \in Handles : dev[h].closes <= 1 /\ dev[h].stops <= 1

\* A next() call of goroutine t holds the lock; it is using the device.
InFlight(t) == th[t].pc # "idle"
Reading(t) == th[t].pc \in {"wait", "read", "decode"}

\* C3: at most one next() call is between its lock acquisition and its
\* return, and Close() stops the stream and releases the handle only while
\* no next() call is between WaitForFrame and the end of the decode.
C3_MutualExclusion ==
  /\ Cardinality({t \in Threads : InFlight(t)}) <= 1
  /\ ev.call \in {"Close.stop", "Close.release"} => \A t \in Threads : ~Reading(t)

\* C4: within one next() call, k empty reads followed by a frame that
\* decodes make the call return that frame for every k up to 4; five empty
\* reads make it return errEmptyFrame after exactly five waits; the count
\* starts at zero in every call.
C4_EmptyFrameBudget ==
  \A t \in Threads :
    LET s == th[t] IN
    /\ (s.pc = "loop" /\ s.nWait = 0) => s.i = 0
    /\ (s.pc = "ret" /\ s.nDec = 0 /\ s.last = "frame") =>
         /\ s.nEmpty <= maxEmptyFrameCount - 1
         /\ s.nWait = s.nEmpty + 1
         /\ s.res = Decoded(s.b)
    /\ (s.pc = "ret" /\ s.nDec = 0 /\ s.nEmpty >= maxEmptyFrameCount) =>
         /\ s.nEmpty = maxEmptyFrameCount
         /\ s.nWait = maxEmptyFrameCount
         /\ s.res = Failed(errEmptyFrame)
    /\ (s.pc = "ret" /\ s.res.err = errEmptyFrame) => s.nWait = maxEmptyFrameCount

\* C4, witness: after a call that met empty frames, a call returns the frame
\* that follows four empty reads.
C4_Witness ==
  \E t \in Threads :
    /\ th[t].pc = "ret"
    /\ th[t].nEmpty = maxEmptyFrameCount - 1
    /\ th[t].nDec = 0
    /\ th[t].res = Decoded(<<1>>)
    /\ past = "retried"

\* C5: a decode-classified failure uses up one attempt like an empty read;
\* a frame that decodes after at most four such attempts is returned with
\* no error, five such attempts end in errEmptyFrame, and a
\* decode-classified error is never the result of next().
C5_DecodeRetryBudget ==
  \A t \in Threads :
    LET s == th[t] IN
    /\ s.pc # "ret" => s.i = s.nEmpty + s.nDec
    /\ s.pc = "ret" =>
         /\ s.i = s.nEmpty + s.nDec
         /\ s.last = "frame" =>
              s.nEmpty + s.nDec <= maxEmptyFrameCount - 1 /\ s.res = Decoded(s.b)
         /\ s.nEmpty + s.nDec >= maxEmptyFrameCount =>
              s.nWait = maxEmptyFrameCount /\ s.res = Failed(errEmptyFrame)
         /\ ~ErrorsIs(s.res.err, DecoderError)
         /\ s.res.err.t # "decoderError"

\* C5, witness: a frame is returned after a mix of empty reads and decode
\* failures that used four attempts.
C5_Witness ==
  \E t \in Threads :
    /\ th[t].pc = "ret"
    /\ th[t].nEmpty >= 1
    /\ th[t].nDec >= 1
    /\ th[t].nEmpty + th[t].nDec = maxEmptyFrameCount - 1
    /\ th[t].res = Decoded(<<1>>)

\* C6: once Close() has returned, a next() call on any reader made before
\* it issues no wait and no read and returns io.EOF.
C6_SinglePass ==
  \A t \in Threads :
    th[t].late =>
      /\ ~Reading(t)
      /\ th[t].pc = "ret" => th[t].res = Failed(EOF)

\* C7: a timeout or an error of the wait, and an error of the read, end the
\* next() call at once with that error and no image; a timeout leaves the
\* stream of the handle running.
C7_WaitReadFailures ==
  \A t \in Threads :
    LET s == th[t] IN
    /\ s.last = "timeout" =>
         /\ s.pc = "ret" /\ s.res = Failed(errReadTimeout)
         /\ dev[readers[s.r].cam].streaming
    /\ s.last = "error" => s.pc = "ret" /\ s.res = Failed(waitErr)
    /\ s.last = "readerr" => s.pc = "ret" /\ s.res = Failed(readErr)

\* C7, witness: the call after one that timed out returns a frame.
C7_Witness ==
  \E t \in Threads :
    /\ th[t].pc = "ret"
    /\ th[t].res = Decoded(<<1>>)
    /\ past = "timeout"
    /\ Len(readers) = 1

\* C8, as stated: a wait timeout with retry budget left is absorbed, so a
\* call returns an error only with the budget used up or on a hard error.
C8_TimeoutAbsorbed ==
  \A t \in Threads :
    LET s == th[t] IN
    (s.pc = "ret" /\ s.res.err \notin {Nil, EOF}) =>
      \/ ~LoopCond(s.i)
      \/ s.res.err \in {waitErr, readErr}

\* C8, amended: only empty frames and decode-classified errors are absorbed
\* while budget remains; a wait timeout surfaces at once as errReadTimeout
\* whatever budget remains, like a hard wait or read error, and
\* errEmptyFrame surfaces only with the budget used up.
C8_OnlyBadFramesAbsorbed ==
  \A t \in Threads :
    LET s == th[t] IN
    /\ (s.last \in {"empty", "decerr"} /\ LoopCond(s.i)) =>
         s.pc \in {"loop", "wait"} \/ (s.pc = "ret" /\ s.res = Failed(EOF))
    /\ (s.last = "timeout" /\ LoopCond(s.i + 1)) =>
         s.pc = "ret" /\ s.res = Failed(errReadTimeout)
    /\ (s.pc = "ret" /\ s.res.err \notin {Nil, EOF}) =>
         \/ s.res.err = errEmptyFrame /\ ~LoopCond(s.i)
         \/ s.res.err \in {errReadTimeout, waitErr, readErr}

\* C8, witness: a timeout is returned by a call that had budget left.
C8_Witness ==
  \E t \in Threads :
    /\ th[t].pc = "ret"
    /\ th[t].i \in 1..(maxEmptyFrameCount - 2)
    /\ th[t].res = Failed(errReadTimeout)

\* C9: a VideoRecord call for a format that has a decoder and no native
\* counterpart in reversedFormats fails without a reader and before any
\* request is sent to the device.
C9_NegotiationFailure ==
  (ev.call = "VideoRecord" /\ ev.arg.dec /\ ev.arg.fmt \notin DOMAIN reversedFormats) =>
    ev.ret # Nil /\ ev.ops = <<>>

\* C10: the bytes handed to the decoder are those of the frame just read,
\* in the same number, and the scratch buffer of a reader is as long as the
\* longest frame that reader has read.
C10_BufferGrowth ==
  /\ \A t \in Threads :
       th[t].pc = "decode" =>
         /\ th[t].n = Len(th[t].b)
         /\ DecodeArg(readers[th[t].r].buf, th[t].n) = th[t].b
  /\ \A r \in 1..Len(readers) : Len(readers[r].buf) = readers[r].maxLen

\* C10, witness: a frame shorter than the buffer is about to be decoded
\* while the buffer still holds a different byte of an earlier frame.
C10_Witness ==
  \E t \in Threads :
    /\ th[t].pc = "decode"
    /\ Len(th[t].b) = 1
    /\ Len(readers[th[t].r].buf) = MaxFrameLen
    /\ readers[th[t].r].buf[MaxFrameLen] # th[t].b[1]

\* How often descriptor d occurs in the answer out.
Count(out, d) == Cardinality({i \in DOMAIN out : out[i] = d})

\* The frame-size entries of the device that belong to a format of the
\* Format Table, each as <<format, index>>.
TableEntries(device) ==
  UNION {{<<f, j>> : j \in DOMAIN device[f]} :
           f \in (DOMAIN device) \cap (DOMAIN formats)}

\* Entry fs of a format with canonical format c calls for descriptor d.
CallsFor(fs, c, d) ==
  /\ d.FrameFormat = c
  /\ IF fs.StepWidth = 0 \/ fs.StepHeight = 0
     THEN d.Width = fs.MaxWidth /\ d.Height = fs.MaxHeight
     ELSE /\ \E k \in DOMAIN supportedResolutions :
               supportedResolutions[k] = <<d.Width, d.Height>>
          /\ fs.MinWidth <= d.Width /\ d.Width <= fs.MaxWidth
          /\ fs.MinHeight <= d.Height /\ d.Height <= fs.MaxHeight
          /\ (d.Width - fs.MinWidth) % fs.StepWidth = 0
          /\ (d.Height - fs.MinHeight) % fs.StepHeight = 0

\* Every descriptor an answer could hold.
Descriptors ==
  {Media(r[1], r[2], c) :
     r \in {supportedResolutions[k] : k \in DOMAIN supportedResolutions}
           \cup UNION {{<<l[j].MaxWidth, l[j].MaxHeight>> : j \in DOMAIN l} :
                         l \in SizeLists},
     c \in {formats[f] : f \in DOMAIN formats}}

\* C11: the answer of Properties() holds every descriptor as often as there
\* are frame-size entries of table formats that call for it: an entry with a
\* step of zero calls for its maximal size alone, any other entry for the
\* standard resolutions within its range and on its steps, width and height
\* tested independently; nothing else is in the answer, so formats absent
\* from the table contribute nothing.
C11_Enumeration ==
  props.n > 0 =>
    /\ \A i \in DOMAIN props.out : props.out[i] \in Descriptors
    /\ \A d \in Descriptors :
         Count(props.out, d) =
           Cardinality({e \in TableEntries(props.device) :
                          CallsFor(props.device[e[1]][e[2]], formats[e[1]], d)})

\* C11, witness: a device with a discrete size under a format the table does
\* not hold, and under a table format a stepped range, of which 640x480 and
\* 1280x800 are on the steps, followed by the discrete size 640x480, has
\* answered the three descriptors of the table format.
C11_Witness ==
  /\ props.n > 0
  /\ DOMAIN props.device = {"V4L2_PIX_FMT_YUYV", "V4L2_PIX_FMT_H264"}
  /\ props.device["V4L2_PIX_FMT_H264"] = <<FixedSize>>
  /\ props.device["V4L2_PIX_FMT_YUYV"] = <<Stepped64, FixedSize>>
  /\ props.out = <<Media(640, 480, "FormatYUYV"), Media(1280, 800, "FormatYUYV"),
                   Media(640, 480, "FormatYUYV")>>

\* C12: two Properties() queries against the same device return the same
\* sequence of descriptors.
C12_SameOrder ==
  props.n >= 2 => props.out = props.prev

\* C13: whatever order the construction loop visits the Format Table in,
\* native -> canonical -> native and canonical -> native -> canonical are
\* the identity and the two maps have the same number of entries; so the
\* native format VideoRecord sends for a canonical format of the table maps
\* back to that canonical format.
C13_RoundTrip ==
  /\ \A rev \in ReversedOutcomes :
       /\ \A native \in DOMAIN formats : rev[formats[native]] = native
       /\ \A canonical \in DOMAIN rev : formats[rev[canonical]] = canonical
       /\ Cardinality(DOMAIN rev) = Cardinality(DOMAIN formats)
  /\ (ev.call = "VideoRecord" /\ ev.ops # <<>> /\ ev.arg.fmt \in DOMAIN reversedFormats) =>
       /\ ev.ops[1].pf \in DOMAIN formats
       /\ formats[ev.ops[1].pf] = ev.arg.fmt

\* C13, witness: VideoRecord has resolved FormatMJPEG to the native MJPEG
\* format and sent it to the device.
C13_Witness ==
  /\ ev.call = "VideoRecord"
  /\ ev.arg.fmt = "FormatMJPEG"
  /\ ev.ops # <<>>
  /\ ev.ops[1].op = "SetImageFormat"
  /\ ev.ops[1].pf = "V4L2_PIX_FMT_MJPEG"

\* The requests of a VideoRecord call that meets no failure, in order.
AllSteps(arg) ==
  <<"SetImageFormat">> \o (IF arg.rate > 0 THEN <<"SetFramerate">> ELSE <<>>)
    \o <<"StartStreaming">>

OpNames(ops) == [k \in DOMAIN ops |-> ops[k].op]

IsPrefix(a, b) == Len(a) <= Len(b) /\ SubSeq(b, 1, Len(a)) = a

\* C14: a VideoRecord call without a decoder sends no request; otherwise it
\* sends set-format, set-framerate (only for a rate above 0) and
\* start-stream in this order to the handle of the session and stops at the
\* first that fails.  A failing call returns the error, makes no reader and
\* leaves the registered cancellation and the device as they were, so that
\* on a session without a recording none is registered and the Close() that
\* follows goes to the release without stop-stream; a succeeding call has
\* sent all steps, started the stream and registered its reader.
C14_StepOrder ==
  [][/\ ev'.call = "VideoRecord" =>
          LET names == OpNames(ev'.ops)
              all == AllSteps(ev'.arg)
          IN /\ \A k \in DOMAIN ev'.ops : ev'.ops[k].h = cam
             /\ ~ev'.arg.dec => (names = <<>> /\ ev'.ret # Nil)
             /\ ev'.ret = Nil =>
                  /\ names = all
                  /\ Len(readers') = Len(readers) + 1
                  /\ SubSeq(readers', 1, Len(readers)) = readers
                  /\ readers'[Len(readers')].cam = cam
                  /\ ~readers'[Len(readers')].cancelled
                  /\ cancel' = Len(readers')
                  /\ dev'[cam].streaming
             /\ ev'.ret # Nil =>
                  /\ IsPrefix(names, all)
                  /\ ev'.arg.dec => names # <<>>
                  /\ readers' = readers
                  /\ cancel' = cancel
                  /\ dev' = dev
     /\ (cancel = 0 /\ cl.pc = "idle" /\ cl'.pc # "idle") => cl'.pc = "release"
     /\ ev'.call = "Close.stop" => (cl.pc = "stop" /\ cancel # 0)
     /\ ev'.call = "Close.release" => (ev'.ops = <<Op("Close", cam)>> /\ dev'[cam].stops = dev[cam].stops)
    ]_vars

\* C14, witness: on a session without a recording a call with a frame rate
\* has failed at start-stream, after the three requests, and no cancellation
\* is registered.
C14_Witness ==
  /\ ev.call = "VideoRecord"
  /\ ev.ret # Nil
  /\ OpNames(ev.ops) = <<"SetImageFormat", "SetFramerate", "StartStreaming">>
  /\ cancel = 0
  /\ readers = <<>>
  /\ dev[cam].st = "open"
  /\ ~dev[cam].streaming

\* The steps of one Close() call, as pairs of positions.
CloseOrder ==
  {<<"idle", "lock">>, <<"lock", "stop">>, <<"stop", "release">>,
   <<"idle", "release">>, <<"release", "ret">>, <<"ret", "idle">>}

\* C15: with a recording registered Close() cancels the reader, then takes
\* the lock, then stops the stream, then releases the handle, and keeps the
\* lock until it returns; on a session never opened it sends nothing to a
\* device and returns nil; on an opened session with no recording
\* registered it releases the handle and sends no stop-stream.
C15_CloseOrder ==
  /\ [](/\ cl.pc = "lock" =>
             (cancel # 0 /\ readers[cancel].cancelled /\ ~cl.locked /\ mutex # Closer)
        /\ cl.pc = "stop" =>
             (cancel # 0 /\ readers[cancel].cancelled /\ cl.locked /\ mutex = Closer)
        /\ (cl.pc \in {"release", "ret"} /\ cl.locked) => mutex = Closer)
  /\ [][/\ cl'.pc # cl.pc => <<cl.pc, cl'.pc>> \in CloseOrder
        /\ (cl.pc = "idle" /\ cl'.pc = "lock") =>
             (cancel # 0 /\ ev' = Ev("Close.cancel", NoArg, <<>>, Nil)
              /\ readers'[cancel].cancelled /\ dev' = dev)
        /\ (cl.pc = "lock" /\ cl'.pc = "stop") =>
             (mutex = Free /\ mutex' = Closer /\ ev'.ops = <<>> /\ dev' = dev)
        /\ (cl.pc = "stop" /\ cl'.pc = "release") =>
             (ev'.ops = <<Op("StopStreaming", cam)>> /\ mutex' = Closer
              /\ dev'[cam].stops = dev[cam].stops + 1
              /\ dev'[cam].closes = dev[cam].closes)
        /\ (cl.pc = "release" /\ cl'.pc = "ret") =>
             (ev'.ops = <<Op("Close", cam)>> /\ mutex' = mutex
              /\ dev'[cam].closes = dev[cam].closes + 1
              /\ dev'[cam].stops = dev[cam].stops)
        /\ (cl.pc = "ret" /\ cl'.pc = "idle") =>
             (ev' = Ev("Close", NoArg, <<>>, Nil) /\ dev' = dev
              /\ cl.locked => mutex' = Free)
        /\ (cam = 0 /\ cl.pc = "idle" /\ cl' # cl) =>
             (cl'.pc = "idle" /\ ev' = Ev("Close", NoArg, <<>>, Nil) /\ dev' = dev)
        /\ (cam # 0 /\ cancel = 0 /\ cl.pc = "idle" /\ cl' # cl) =>
             (cl'.pc = "release" /\ ~cl'.locked /\ ev'.ops = <<>> /\ dev' = dev)
       ]_vars

\* C15, witness: Close() has released the handle of a streaming session
\* after the cancellation and the stop, and still holds the lock.
C15_Witness ==
  /\ ev.call = "Close.release"
  /\ cl.locked
  /\ mutex = Closer
  /\ readers # <<>>
  /\ readers[Len(readers)].cancelled
  /\ dev[cam].stops = 1
  /\ dev[cam].closes = 1

\* C16: once Close() has signalled cancellation and waits for the lock, a
\* next() call that comes to the top of a retry iteration does not go into
\* WaitForFrame again.
C16_NoNewWait ==
  [][\A t \in Threads :
       (cl.pc = "lock" /\ th[t].pc = "loop" /\ th[t].i > 0) => th'[t].pc # "wait"]_vars

\* C17: a reader is made with the format and size that were asked for,
\* whatever the device answered to the set-format request, it keeps them,
\* and every Decode call of a next() on it is made with the decoder of that
\* format and with that width and height.
C17_RequestedKept ==
  /\ [](\A t \in Threads :
          (ev.call = "next.decode" /\ th[t].pc # "idle") =>
            /\ ev.arg.fmt = readers[th[t].r].p.fmt
            /\ ev.arg.w = readers[th[t].r].p.w
            /\ ev.arg.h = readers[th[t].r].p.h)
  /\ [][/\ (ev'.call = "VideoRecord" /\ ev'.ret = Nil) =>
             /\ Len(readers') = Len(readers) + 1
             /\ readers'[Len(readers')].p =
                  [fmt |-> ev'.arg.fmt, w |-> ev'.arg.w, h |-> ev'.arg.h]
        /\ \A k \in DOMAIN readers :
             /\ k \in DOMAIN readers'
             /\ readers'[k].p = readers[k].p
             /\ readers'[k].actual = readers[k].actual
       ]_vars

\* C17, witness: the device has answered a request for MJPEG at 1280x720
\* with YUYV at 320x240, the recording has started, and a frame of its reader
\* has been decoded as MJPEG at 1280x720.
C17_Witness ==
  /\ ev.call = "next.decode"
  /\ ev.arg.fmt = "FormatMJPEG"
  /\ ev.arg.w = 1280
  /\ ev.arg.h = 720
  /\ \E t \in Threads :
       /\ th[t].pc = "ret"
       /\ th[t].res = Decoded(<<1>>)
       /\ readers[th[t].r].actual = Downgrade
       /\ readers[th[t].r].p = [fmt |-> "FormatMJPEG", w |-> 1280, h |-> 720]

\* C18: Decode returns an error exactly when the format decoder does; the
\* error is a decoderError that errors.Is matches with DecoderError, that
\* unwraps to the cause and that the read loop retries; without an error the
\* image and the release callback are those of the format decoder.  So a
\* Decode call of next() either ends the call with the image or sends it
\* into the next attempt.
C18_DecodeErrors ==
  /\ \A frame \in Frames, ok \in BOOLEAN :
       LET u == FormatDecode(frame, ok)
           r == Decode(frame, ok)
       IN /\ (r.err # Nil) <=> (u.err # Nil)
          /\ r.img = u.img
          /\ r.release = u.release
          /\ u.err = Nil => r.err = Nil
          /\ u.err # Nil =>
               /\ r.err.t = "decoderError"
               /\ ErrorsIs(r.err, DecoderError)
               /\ Unwrap(r.err) = u.err
               /\ DecodeRetry(r.err)
  /\ \A t \in Threads :
       (ev.call = "next.decode" /\ th[t].pc # "idle") =>
         IF ev.ret = Nil
         THEN th[t].pc = "ret" /\ th[t].res = Decoded(th[t].b)
         ELSE /\ ErrorsIs(ev.ret, DecoderError)
              /\ Unwrap(ev.ret) = decodeCause
              /\ th[t].pc = "loop"
              /\ th[t].last = "decerr"
              /\ th[t].i = th[t].nEmpty + th[t].nDec

\* C18, witness: the decoder has failed on a frame of two bytes read after
\* an empty frame, and next() is at the top of its third attempt.
C18_Witness ==
  /\ ev.call = "next.decode"
  /\ ev.ret = decoderError(decodeCause)
  /\ \E t \in Threads :
       /\ th[t].pc = "loop"
       /\ th[t].i = 2
       /\ th[t].nEmpty = 1
       /\ th[t].nDec = 1
       /\ Len(readers[th[t].r].buf) = 2

\* The requests the session sends to a handle between its Open and Close.
StreamOps ==
  {"SetImageFormat", "SetFramerate", "StartStreaming", "WaitForFrame",
   "ReadFrame", "StopStreaming"}

\* C19: the session holds at most one handle that is acquired and not yet
\* released, no acquired handle is unreleased when a Close() has returned,
\* and no request is sent to a handle that was released.
C19_HandleOwnership ==
  /\ Cardinality({h \in Handles : dev[h].st = "open"}) <= 1
  /\ ev.call = "Close" => \A h \in Handles : dev[h].st # "open"
  /\ \A k \in DOMAIN ev.ops :
       ev.ops[k].op \in StreamOps => dev[ev.ops[k].h].st # "released"

\* C20: one call of the reader makes at most maxDecodeErrors reads; every
\* read but the last failed with a decoder-classified error; the call ends
\* at once with the error of a read that failed otherwise, with the result
\* of the one Decode call after a read that succeeded, error included, and
\* after maxDecodeErrors decoder-classified read errors with an error that
\* wraps the last of them.
C20_ReadRetry ==
  LET n == Len(av.reads) IN
  /\ n <= maxDecodeErrors
  /\ \A k \in 1..(n - 1) : ErrorsIs(av.reads[k], DecoderError)
  /\ av.pc = "loop" => (av.i = n /\ \A k \in 1..n : ErrorsIs(av.reads[k], DecoderError))
  /\ av.pc = "decode" => (n >= 1 /\ av.reads[n] = Nil /\ av.decodes = 0)
  /\ av.pc = "ret" =>
       /\ n >= 1
       /\ IF av.reads[n] = Nil
          THEN /\ av.decodes = 1
               /\ av.res \in {AVResult(av.frameBuffer, "func", Nil),
                              AVResult(NoImage, "func", decoderError(decodeCause))}
          ELSE IF ~ErrorsIs(av.reads[n], DecoderError)
          THEN av.decodes = 0 /\ av.res = AVResult(NoImage, "func", av.reads[n])
          ELSE /\ n = maxDecodeErrors
               /\ av.decodes = 0
               /\ av.res.img = NoImage
               /\ av.res.err = Errorf(av.reads[n])
               /\ UnwrapErrorf(av.res.err) = av.reads[n]

\* C20, witness: the third read has failed with a decoder-classified error
\* other than the one of the second read, and the call has returned the
\* error that wraps it.
C20_Witness ==
  /\ av.pc = "ret"
  /\ Len(av.reads) = maxDecodeErrors
  /\ av.reads[maxDecodeErrors] = decoderError(decodeCause)
  /\ av.reads[maxDecodeErrors - 1] = DecoderError
  /\ av.res.err = Errorf(decoderError(decodeCause))
====
